---- MODULE Spec2Model ----
(***************************************************************************)
(* Model of the evidence acquisition and indexing pipeline:                *)
(*   - the DailyMed retrieval agent (lib/agents/sub_agents/                *)
(*     dailymed_retriever.py),                                             *)
(*   - the text chunker and the ingestion run (scripts/                    *)
(*     ingest-indian-guidelines.py),                                       *)
(*   - the model selector and the startup validation (lib/config/          *)
(*     gcp_config.py).                                                     *)
(* Each part has its own variables, its own initial condition and its own  *)
(* next-state relation; a part's specification leaves the other parts      *)
(* idle.                                                                   *)
(***************************************************************************)
EXTENDS Integers, Sequences, FiniteSets, TLC

\* ------------------------------------------------------------------------
\* Bounds of the model
\* ------------------------------------------------------------------------

\* longest entity list given to the retrieval agent
MaxEntities == 2
\* largest max_results_per_drug given to the retrieval agent
MaxResults == 2
\* most summaries the search endpoint returns for one entity
MaxSummaries == 3
\* longest text given to chunk_text
MaxTextLen == 6
\* largest chunk_size and largest overlap given to chunk_text
MaxSize == 5
\* largest complexity score given to select_synthesis_model, in tenths
MaxScore == 10
\* most blocks (a run of letters and a separator) a long text is made of
MaxBlocks == 3
\* most chunks chunk_text is followed to
MaxChunks == 4
\* most elements with text in a fetched document
MaxElements == 2
\* most objects in the raw-document bucket
MaxBlobs == 2
\* most objects in a bucket that is ingested more than once
MaxReingestBlobs == 1
\* most ingestion runs (processes) over the same bucket and chunk store
MaxRuns == 2
\* largest chunk index at which the embedding service may fail for good
MaxFailIndex == 2
\* largest small collection delete_collection is run on
MaxDocs == 6
\* largest batch_size delete_collection is called with
MaxBatchSize == 3
\* most frames the calls into the store client take above delete_collection
MaxLibFrames == 3

\* ------------------------------------------------------------------------
\* Helpers
\* ------------------------------------------------------------------------

Min(a, b) == IF a <= b THEN a ELSE b

Max(a, b) == IF a >= b THEN a ELSE b

SeqUpTo(S, n) == UNION {[1..k -> S] : k \in 0..n}

\* len(xs) where line 176 has len(xs[:m]): the summaries are not cut
PySliceAll(n, m) == n

\* Python's len(xs[:m]) for a list of length n: a negative m counts from the end.
PySliceTo(n, m) == IF m >= 0 THEN Min(n, m) ELSE Max(0, n + m)

VARIABLES
    \* ---- retrieval agent (one call of DailyMedRetriever._execute) ----
    ag_pc,          \* position of the call
    input_data,     \* the 'drug_names' entry of input_data, or Missing
    drug_names,     \* _execute: drug_names
    max_results,    \* _execute: max_results
    ag_i,           \* search_drug_labels: index of drug_name in drug_names
    spls,           \* _search_single_drug: number of summaries in spls
    ag_j,           \* _search_single_drug: index of spl in spls[:max_results]
    results,        \* _search_single_drug: results
    all_results,    \* search_drug_labels: all_results
    outcome,        \* the AgentResult returned, or NoOutcome
    ag_requests,    \* requests issued on the session so far
    ag_inflight,    \* requests issued and not yet answered
    ag_searched,    \* entity indexes whose search request was issued
    ag_fetched,     \* records of the documents the service served, in order
    ag_slept,       \* entity indexes after which the rate-limit sleep ran
    ag_metrics      \* metrics records the sink accepted

agentVars == <<ag_pc, input_data, drug_names, max_results, ag_i, spls, ag_j,
               results, all_results, outcome, ag_requests, ag_inflight,
               ag_searched, ag_fetched, ag_slept, ag_metrics>>

VARIABLES
    \* ---- chunk_text (one call) ----
    ck_pc,          \* position of the call
    text,           \* chunk_text: text
    chunk_size,     \* chunk_text: chunk_size
    overlap,        \* chunk_text: overlap
    start,          \* chunk_text: start
    chunks,         \* chunk_text: chunks
    ck_prev,        \* <<start at the head of the last iteration>>, <<>> before the first
    ck_end,         \* <<end of the window of the last iteration>>, <<>> before the first
    ck_covered,     \* the 0-based positions of text that lay in some window text[start:end]
    ck_kept,        \* the positions that lie in a chunk appended to chunks
    ck_dropped      \* the positions of the windows whose chunk was not appended

chunkVars == <<ck_pc, text, chunk_size, overlap, start, chunks, ck_prev, ck_end,
               ck_covered, ck_kept, ck_dropped>>

VARIABLES
    \* ---- configuration (import of lib/config/gcp_config.py) ----
    cf_pc,              \* "import", then "ready" (validated) or "failed" (raised)
    gemini_config,      \* GeminiConfig: the model identifiers and policy flags
    data_source_config, \* DataSourceConfig: the five priority ranks
    cf_error,           \* the message of the ValueError raised, "" if none
    cf_call             \* the last call of the model selector and what it returned

configVars == <<cf_pc, gemini_config, data_source_config, cf_error, cf_call>>

VARIABLES
    \* ---- ingestion (runs of main of scripts/ingest-indian-guidelines.py) ----
    in_pc,            \* position of the run
    bucket,           \* the objects of the raw-document bucket, as listed
    store,            \* the chunk store: the records of the collection
    in_run,           \* number of the run (process), from 1
    py_hash,          \* this process's hash() on the names it hashes
    diabetes_blobs,   \* main: diabetes_blobs
    other_icmr_blobs, \* main: other_icmr_blobs
    in_loop,          \* which loop of main is running: "diabetes" or "others"
    in_k,             \* index of blob in the list of the running loop
    blob,             \* process_file: blob
    chunks_n,         \* process_file: len(chunks)
    pf_i,             \* process_file: i
    batch,            \* process_file: the writes staged in batch
    batch_count,      \* process_file: batch_count
    in_processed,     \* names process_file was called with in this run, in order
    in_embedded,      \* indexes of the current file whose embedding succeeded
    in_failed,        \* indexes of the current file whose embedding failed
    in_committed,     \* indexes of the current file committed, in commit order
    in_returned,      \* how the last call of process_file ended
    in_ncommits,      \* batch commits issued in this run
    in_last_io,       \* what came last in this run: a commit or a pause
    in_clean,         \* no download or embedding failure in any run so far
    in_prev_ids       \* the chunk ids in the store when the previous run ended

ingestVars == <<in_pc, bucket, store, in_run, py_hash, diabetes_blobs,
                other_icmr_blobs, in_loop, in_k, blob, chunks_n, pf_i, batch,
                batch_count, in_processed, in_embedded, in_failed, in_committed,
                in_returned, in_ncommits, in_last_io, in_clean, in_prev_ids>>

VARIABLES
    \* ---- _parse_spl_xml and _create_searchable_text on one document ----
    ps_pc,            \* position: the document is fetched, parsed, made searchable
    xml_content,      \* _fetch_spl_details: xml_content
    sections,         \* _fetch_spl_details: sections, in the order of the dict
    text_for_search   \* _fetch_spl_details: result['text_for_search'], part by part

parserVars == <<ps_pc, xml_content, sections, text_for_search>>

VARIABLES
    \* ---- delete_collection of scripts/clear-firestore-chunks.py ----
    dl_pc,          \* position: "call", "page", then "returned" or "raised"
    coll_size,      \* documents the collection held when main called
    coll_docs,      \* documents the collection holds
    batch_size,     \* delete_collection: batch_size
    docs,           \* delete_collection: documents left on the stream docs
    deleted,        \* delete_collection: deleted
    dl_depth,       \* calls of delete_collection that are active
    dl_full_pages,  \* pages of batch_size documents deleted so far
    dl_result       \* what the outermost call returned

deleteVars == <<dl_pc, coll_size, coll_docs, batch_size, docs, deleted,
                dl_depth, dl_full_pages, dl_result>>

vars == <<agentVars, chunkVars, configVars, ingestVars, parserVars, deleteVars>>

notAgentVars == <<chunkVars, configVars, ingestVars, parserVars, deleteVars>>

notChunkVars == <<agentVars, configVars, ingestVars, parserVars, deleteVars>>

notConfigVars == <<agentVars, chunkVars, ingestVars, parserVars, deleteVars>>

notIngestVars == <<agentVars, chunkVars, configVars, parserVars, deleteVars>>

notParserVars == <<agentVars, chunkVars, configVars, ingestVars, deleteVars>>

notDeleteVars == <<agentVars, chunkVars, configVars, ingestVars, parserVars>>

\* ------------------------------------------------------------------------
\* Retrieval agent
\* ------------------------------------------------------------------------

Entities == {"metformin", "insulin glargine"}

\* input_data without a 'drug_names' entry
Missing == [has_drug_names |-> FALSE, drug_names |-> <<>>]

\* input_data whose 'drug_names' entry is names
InputData(names) == [has_drug_names |-> TRUE, drug_names |-> names]

NoOutcome == [success |-> FALSE, results |-> <<>>, error |-> "", returned |-> FALSE]

\* AgentResult(success, data={'results': r}, error)
AgentResult(s, r, e) == [success |-> s, results |-> r, error |-> e, returned |-> TRUE]

\* what the search endpoint answers when the search fails: an HTTP error status
\* or a raised exception (connection error, invalid JSON, a body that is no
\* object); otherwise it answers 0..MaxSummaries summaries
SearchFailures == {"http_error", "exception"}

\* what a summary of the search answer is: an object with a set id, an object
\* without one, or no object at all (null, a string, a number)
SummaryKinds == {"dict", "nosetid", "notdict"}

\* what the detail endpoint answers: an HTTP error status, a raised exception,
\* a well-formed document, or a document whose markup does not parse
FetchResponses == {"http_error", "exception", "ok", "malformed_xml"}

\* _fetch_spl_details: the result record of summary j of entity i
SplRecord(i, j, resp) ==
    [drug_name |-> drug_names[i], setid |-> <<i, j>>,
     sections |-> IF resp = "ok" THEN "parsed" ELSE "empty"]

InitAgent ==
    /\ ag_pc = "execute"
    /\ input_data \in {Missing} \cup {InputData(n) : n \in SeqUpTo(Entities, MaxEntities)}
    /\ max_results \in 0..MaxResults
    /\ drug_names = <<>>
    /\ ag_i = 0
    /\ spls = 0
    /\ ag_j = 0
    /\ results = <<>>
    /\ all_results = <<>>
    /\ outcome = NoOutcome
    /\ ag_requests = 0
    /\ ag_inflight = 0
    /\ ag_searched = {}
    /\ ag_fetched = <<>>
    /\ ag_slept = {}
    /\ ag_metrics = <<>>

\* the agent is not called
IdleAgent ==
    /\ ag_pc = "idle"
    /\ input_data = Missing
    /\ max_results = 0
    /\ drug_names = <<>>
    /\ ag_i = 0
    /\ spls = 0
    /\ ag_j = 0
    /\ results = <<>>
    /\ all_results = <<>>
    /\ outcome = NoOutcome
    /\ ag_requests = 0
    /\ ag_inflight = 0
    /\ ag_searched = {}
    /\ ag_fetched = <<>>
    /\ ag_slept = {}
    /\ ag_metrics = <<>>

\* Execute without the guard of line 62: an empty list is searched like any other
ExecuteNoEmptyCheck ==
    /\ ag_pc = "execute"
    /\ drug_names' = IF input_data.has_drug_names THEN input_data.drug_names ELSE <<>>
    /\ outcome' = outcome
    /\ ag_pc' = "entity"
    /\ ag_i' = 1
    /\ all_results' = <<>>
    /\ UNCHANGED <<input_data, max_results, spls, ag_j, results, ag_requests,
                   ag_inflight, ag_searched, ag_fetched, ag_slept, ag_metrics>>
    /\ UNCHANGED notAgentVars

\* _execute, lines 59-69: read the input, refuse an empty entity list
Execute ==
    /\ ag_pc = "execute"
    /\ drug_names' = IF input_data.has_drug_names THEN input_data.drug_names ELSE <<>>
    /\ IF drug_names' = <<>>
       THEN /\ outcome' = AgentResult(FALSE, <<>>, "No drug names provided")
            /\ ag_pc' = "done"
            /\ ag_i' = ag_i
       ELSE /\ outcome' = outcome
            /\ ag_pc' = "entity"
            /\ ag_i' = 1
    /\ all_results' = <<>>
    /\ UNCHANGED <<input_data, max_results, spls, ag_j, results, ag_requests,
                   ag_inflight, ag_searched, ag_fetched, ag_slept, ag_metrics>>
    /\ UNCHANGED notAgentVars

\* _search_single_drug, line 162: the search request of entity ag_i goes out
SendSearch ==
    /\ ag_pc = "entity"
    /\ ag_i <= Len(drug_names)
    /\ ag_requests' = ag_requests + 1
    /\ ag_inflight' = ag_inflight + 1
    /\ ag_searched' = ag_searched \cup {ag_i}
    /\ ag_pc' = "await_search"
    /\ UNCHANGED <<input_data, drug_names, max_results, ag_i, spls, ag_j,
                   results, all_results, outcome, ag_fetched, ag_slept,
                   ag_metrics>>
    /\ UNCHANGED notAgentVars

\* _search_single_drug, lines 163-175 and 188-190: the search answer arrives
RecvSearch ==
    /\ ag_pc = "await_search"
    /\ ag_inflight' = ag_inflight - 1
    /\ \/ \E resp \in SearchFailures :
            \* return []: nothing is added for this entity
            /\ ag_pc' = "sleep"
            /\ UNCHANGED <<spls, ag_j, results>>
       \/ \E k \in 0..MaxSummaries :
            IF k = 0
            THEN \* no labels found: return []
                 /\ ag_pc' = "sleep"
                 /\ UNCHANGED <<spls, ag_j, results>>
            ELSE /\ spls' = k
                 /\ ag_j' = 1
                 /\ results' = <<>>
                 /\ ag_pc' = "fetch"
    /\ UNCHANGED <<input_data, drug_names, max_results, ag_i, all_results,
                   outcome, ag_requests, ag_searched, ag_fetched, ag_slept,
                   ag_metrics>>
    /\ UNCHANGED notAgentVars

\* _search_single_drug, lines 176-184, and _fetch_spl_details, lines 206-214:
\* the next summary of spls[:max_results] is taken up
FetchSummary ==
    /\ ag_pc = "fetch"
    /\ ag_j <= PySliceTo(spls, max_results)
    /\ \E kind \in SummaryKinds :
         CASE kind = "dict" ->
                \* the detail request goes out
                /\ ag_requests' = ag_requests + 1
                /\ ag_inflight' = ag_inflight + 1
                /\ ag_pc' = "await_fetch"
                /\ UNCHANGED <<ag_j, results>>
           [] kind = "nosetid" ->
                \* return None: the summary is skipped
                /\ ag_j' = ag_j + 1
                /\ UNCHANGED <<ag_pc, results, ag_requests, ag_inflight>>
           [] kind = "notdict" ->
                \* spl_summary.get raises before setid is bound; the handler of
                \* line 246 reads setid and raises, the handler of line 183
                \* calls spl.get and raises, the handler of line 188 returns []
                /\ results' = <<>>
                /\ ag_pc' = "sleep"
                /\ UNCHANGED <<ag_j, ag_requests, ag_inflight>>
    /\ UNCHANGED <<input_data, drug_names, max_results, ag_i, spls,
                   all_results, outcome, ag_searched, ag_fetched, ag_slept,
                   ag_metrics>>
    /\ UNCHANGED notAgentVars

\* _fetch_spl_details, lines 215-247: the detail answer arrives
RecvFetch ==
    /\ ag_pc = "await_fetch"
    /\ ag_inflight' = ag_inflight - 1
    /\ \E resp \in FetchResponses :
         IF resp \in {"ok", "malformed_xml"}
         THEN \* a record is built (with an empty section map when the markup
              \* does not parse) and appended
              /\ results' = Append(results, SplRecord(ag_i, ag_j, resp))
              /\ ag_fetched' = Append(ag_fetched, SplRecord(ag_i, ag_j, resp))
         ELSE \* return None: the document is skipped
              UNCHANGED <<results, ag_fetched>>
    /\ ag_j' = ag_j + 1
    /\ ag_pc' = "fetch"
    /\ UNCHANGED <<input_data, drug_names, max_results, ag_i, spls,
                   all_results, outcome, ag_requests, ag_searched, ag_slept,
                   ag_metrics>>
    /\ UNCHANGED notAgentVars

\* _search_single_drug, line 186, and search_drug_labels, line 128:
\* the entity's records are returned and appended to all_results
ReturnResults ==
    /\ ag_pc = "fetch"
    /\ ag_j > PySliceTo(spls, max_results)
    /\ all_results' = all_results \o results
    /\ results' = <<>>
    /\ ag_pc' = "sleep"
    /\ UNCHANGED <<input_data, drug_names, max_results, ag_i, spls, ag_j,
                   outcome, ag_requests, ag_inflight, ag_searched, ag_fetched,
                   ag_slept, ag_metrics>>
    /\ UNCHANGED notAgentVars

\* search_drug_labels with the sleep of line 131 skipped for an entity that
\* added no record
RateLimitSleepOnlyAfterRecords ==
    /\ ag_pc = "sleep"
    /\ ag_slept' = IF \E k \in 1..Len(all_results) : all_results[k].setid[1] = ag_i
                   THEN ag_slept \cup {ag_i}
                   ELSE ag_slept
    /\ ag_i' = ag_i + 1
    /\ ag_pc' = "entity"
    /\ UNCHANGED <<input_data, drug_names, max_results, spls, ag_j, results,
                   all_results, outcome, ag_requests, ag_inflight, ag_searched,
                   ag_fetched, ag_metrics>>
    /\ UNCHANGED notAgentVars

\* search_drug_labels, line 131: the rate-limit sleep after an entity
RateLimitSleep ==
    /\ ag_pc = "sleep"
    /\ ag_slept' = ag_slept \cup {ag_i}
    /\ ag_i' = ag_i + 1
    /\ ag_pc' = "entity"
    /\ UNCHANGED <<input_data, drug_names, max_results, spls, ag_j, results,
                   all_results, outcome, ag_requests, ag_inflight, ag_searched,
                   ag_fetched, ag_metrics>>
    /\ UNCHANGED notAgentVars

\* log_retrieval_metrics of the base agent: the sink accepts the record, or
\* its failure reaches the caller as an exception
MetricsSinkOutcomes == {"accepted", "raised"}

\* _execute, lines 72-103: the search is over, the metrics record is emitted
\* (the sink accepts it or raises) and the outcome is returned
LogMetrics ==
    /\ ag_pc = "entity"
    /\ ag_i > Len(drug_names)
    /\ \E sink \in MetricsSinkOutcomes :
         IF sink = "accepted"
         THEN /\ ag_metrics' = Append(ag_metrics, Len(all_results))
              /\ outcome' = AgentResult(TRUE, all_results, "")
         ELSE /\ ag_metrics' = ag_metrics
              /\ outcome' = AgentResult(FALSE, <<>>, "DailyMed retrieval failed")
    /\ ag_pc' = "done"
    /\ UNCHANGED <<input_data, drug_names, max_results, ag_i, spls, ag_j,
                   results, all_results, ag_requests, ag_inflight, ag_searched,
                   ag_fetched, ag_slept>>
    /\ UNCHANGED notAgentVars

NextAgent ==
    \/ Execute
    \/ SendSearch
    \/ RecvSearch
    \/ FetchSummary
    \/ RecvFetch
    \/ ReturnResults
    \/ RateLimitSleep
    \/ LogMetrics

\* the call was given no entity: the list is empty or the entry is missing
NoEntitiesGiven == ~input_data.has_drug_names \/ input_data.drug_names = <<>>

\* C1: a call with an empty (or missing) entity list issues no request at all
\* and returns success = false, a non-empty error and an empty result list.
C1_EmptyEntitiesRefused ==
    (ag_pc # "idle" /\ NoEntitiesGiven) =>
        /\ ag_requests = 0
        /\ ag_pc \in {"execute", "done"}
        /\ outcome.returned =>
              /\ ~outcome.success
              /\ outcome.error # ""
              /\ outcome.results = <<>>

C1_Witness ==
    /\ input_data = InputData(<<>>)
    /\ ag_pc = "done"
    /\ outcome.returned

\* C2: with a non-empty entity list and the metrics record accepted, failed
\* searches and fetches never abort the call: every entity was searched and the
\* outcome is success = true with exactly the records of the documents that
\* were fetched, in entity order and then summary order.
C2_FailuresKeepFetchedRecords ==
    (outcome.returned /\ drug_names # <<>> /\ ag_metrics # <<>>) =>
        /\ outcome.success
        /\ ag_searched = 1..Len(drug_names)
        /\ outcome.results = ag_fetched

\* ------------------------------------------------------------------------
\* Section parser: _parse_spl_xml and _create_searchable_text
\* ------------------------------------------------------------------------

\* line 273: a section text must be longer than this
MinSectionLen == 20

\* line 279: combined_text[:3000]
MaxSectionLen == 3000

\* line 285: all_text[:5000]
MaxFullTextLen == 5000

\* self.section_codes, lines 32-41, in the order of the dict
section_codes ==
    <<[code |-> "34067-9", name |-> "indications_and_usage"],
      [code |-> "34068-7", name |-> "dosage_and_administration"],
      [code |-> "43685-7", name |-> "warnings_and_precautions"],
      [code |-> "34084-4", name |-> "adverse_reactions"],
      [code |-> "34073-7", name |-> "drug_interactions"],
      [code |-> "34090-1", name |-> "clinical_pharmacology"],
      [code |-> "34076-0", name |-> "information_for_patients"],
      [code |-> "42229-5", name |-> "spl_patient_package_insert"]>>

ConfiguredCodes == {section_codes[k].code : k \in 1..Len(section_codes)}

\* priority_sections, lines 308-315
priority_sections ==
    <<"indications_and_usage", "dosage_and_administration",
      "warnings_and_precautions", "adverse_reactions", "drug_interactions",
      "clinical_pharmacology">>

\* section_name.replace('_', ' ').title()
Title(section_name) ==
    CASE section_name = "indications_and_usage" -> "Indications And Usage"
      [] section_name = "dosage_and_administration" -> "Dosage And Administration"
      [] section_name = "warnings_and_precautions" -> "Warnings And Precautions"
      [] section_name = "adverse_reactions" -> "Adverse Reactions"
      [] section_name = "drug_interactions" -> "Drug Interactions"
      [] section_name = "clinical_pharmacology" -> "Clinical Pharmacology"
      [] section_name = "information_for_patients" -> "Information For Patients"
      [] section_name = "spl_patient_package_insert" -> "Spl Patient Package Insert"
      [] section_name = "full_text" -> "Full Text"

\* the code attribute of an element: a configured code of a priority section,
\* one of another section, a code that is not configured, no code at all
ElementCodes == {"34067-9", "34076-0", "99999-9", ""}

\* the length of the trimmed text of an element
TextLengths ==
    {0, MinSectionLen, MinSectionLen + 1, MaxSectionLen + 1, MaxFullTextLen + 1}

Elements == [code : ElementCodes, len : TextLengths]

\* a response body: markup that does not parse, or a document of elements
Malformed == [wellformed |-> FALSE, elements |-> <<>>]

Documents ==
    {Malformed}
    \cup {[wellformed |-> TRUE, elements |-> es] : es \in SeqUpTo(Elements, MaxElements)}

\* the length of the texts of es put together
RECURSIVE TotalLen(_)
TotalLen(es) == IF es = <<>> THEN 0 ELSE Head(es).len + TotalLen(Tail(es))

\* lines 266-273: section_texts for one code
SectionTexts(doc, code) ==
    SelectSeq(doc.elements,
              LAMBDA e : e.code = code /\ e.len > 0 /\ e.len > MinSectionLen)

\* len('\n\n'.join(texts))
JoinedLen(texts) == TotalLen(texts) + 2 * (Len(texts) - 1)

\* lines 264-278: the sections found by code, in the order of section_codes
StructuredSections(doc) ==
    LET found == SelectSeq(section_codes, LAMBDA c : SectionTexts(doc, c.code) # <<>>)
    IN  [k \in 1..Len(found) |->
            [name |-> found[k].name,
             len |-> Min(JoinedLen(SectionTexts(doc, found[k].code)), MaxSectionLen)]]

\* _parse_spl_xml, lines 260-294
parse_spl_xml(doc) ==
    IF ~doc.wellformed THEN <<>>
    ELSE IF StructuredSections(doc) # <<>> THEN StructuredSections(doc)
    ELSE IF TotalLen(doc.elements) > 0
         THEN <<[name |-> "full_text",
                 len |-> Min(TotalLen(doc.elements), MaxFullTextLen)]>>
         ELSE <<>>

\* lines 317-327: the parts of the searchable text, each a title and a content
TextPart(section) == [title |-> Title(section.name), len |-> section.len]

InPriority(section_name) ==
    \E k \in 1..Len(priority_sections) : priority_sections[k] = section_name

\* _create_searchable_text without the loop of lines 325-327
CreateSearchableTextPriorityOnly(secs) ==
    LET first == SelectSeq(priority_sections,
                           LAMBDA n : \E k \in 1..Len(secs) : secs[k].name = n)
    IN  [k \in 1..Len(first) |->
            TextPart(CHOOSE x \in {secs[j] : j \in 1..Len(secs)} : x.name = first[k])]

\* _create_searchable_text, lines 296-329
create_searchable_text(secs) ==
    LET first == SelectSeq(priority_sections,
                           LAMBDA n : \E k \in 1..Len(secs) : secs[k].name = n)
        rest == SelectSeq(secs, LAMBDA x : ~InPriority(x.name))
    IN  [k \in 1..Len(first) |->
            TextPart(CHOOSE x \in {secs[j] : j \in 1..Len(secs)} : x.name = first[k])]
        \o [k \in 1..Len(rest) |-> TextPart(rest[k])]

InitParser ==
    /\ ps_pc = "fetched"
    /\ xml_content \in Documents
    /\ sections = <<>>
    /\ text_for_search = <<>>

\* no document is parsed
IdleParser ==
    /\ ps_pc = "idle"
    /\ xml_content = Malformed
    /\ sections = <<>>
    /\ text_for_search = <<>>

\* _fetch_spl_details, line 221: sections = self._parse_spl_xml(xml_content)
ParseSplXml ==
    /\ ps_pc = "fetched"
    /\ sections' = parse_spl_xml(xml_content)
    /\ ps_pc' = "parsed"
    /\ UNCHANGED <<xml_content, text_for_search>>
    /\ UNCHANGED notParserVars

\* _fetch_spl_details, line 233: the searchable text of the record
CreateSearchableText ==
    /\ ps_pc = "parsed"
    /\ text_for_search' = create_searchable_text(sections)
    /\ ps_pc' = "done"
    /\ UNCHANGED <<xml_content, sections>>
    /\ UNCHANGED notParserVars

NextParser ==
    \/ ParseSplXml
    \/ CreateSearchableText

\* ------------------------------------------------------------------------
\* chunk_text
\* ------------------------------------------------------------------------

\* the characters of a text: a letter, a newline, a period, a space
Alphabet == {"a", "\n", ".", " "}

Whitespace == {"\n", " "}

\* Python's s[i:j]: a negative index counts from the end, both are clamped
PyIndex(n, i) == IF i < 0 THEN Max(0, n + i) ELSE Min(i, n)

PySlice(s, i, j) ==
    LET lo == PyIndex(Len(s), i)
        hi == PyIndex(Len(s), j)
    IN  IF lo < hi THEN SubSeq(s, lo + 1, hi) ELSE <<>>

\* Python's s.rfind(c) for a single character c: the last 0-based index, or -1
RFindChar(s, c) ==
    LET hits == {k \in 1..Len(s) : s[k] = c}
    IN  IF hits = {} THEN -1 ELSE (CHOOSE k \in hits : \A m \in hits : m <= k) - 1

\* Python's s.rfind('. '): the last 0-based index of a period followed by a space
RFindPeriodSpace(s) ==
    LET hits == {k \in 1..(Len(s) - 1) : s[k] = "." /\ s[k + 1] = " "}
    IN  IF hits = {} THEN -1 ELSE (CHOOSE k \in hits : \A m \in hits : m <= k) - 1

\* Python's s.strip(): leading and trailing whitespace removed
Strip(s) ==
    LET solid == {k \in 1..Len(s) : s[k] \notin Whitespace}
    IN  IF solid = {} THEN <<>>
        ELSE SubSeq(s, CHOOSE k \in solid : \A m \in solid : k <= m,
                       CHOOSE k \in solid : \A m \in solid : m <= k)

\* chunks shorter than this (after strip) are dropped, line 82
MinChunkLen == 50

\* line 82 with >= for the >
KeepChunkAtLeast(chunk) == Len(Strip(chunk)) >= MinChunkLen

\* line 82: the chunk is appended when its trimmed length exceeds the minimum
KeepChunk(chunk) == Len(Strip(chunk)) > MinChunkLen

\* the 0-based positions of t that t[i:j] holds
SlicePositions(t, i, j) ==
    LET lo == PyIndex(Len(t), i)
        hi == PyIndex(Len(t), j)
    IN  lo..(hi - 1)

\* the positions of a window that chunk.strip() keeps
StrippedPositions(t, window) ==
    LET solid == {p \in window : t[p + 1] \notin Whitespace}
        first == CHOOSE p \in solid : \A q \in solid : p <= q
        last == CHOOSE p \in solid : \A q \in solid : q <= p
    IN  IF solid = {} THEN {} ELSE first..last

\* lines 72-80 with the first window one character longer
WindowEndOneMore(t, size, st) ==
    LET end0 == st + size + 1
        chunk0 == PySlice(t, st, end0)
        last_break == Max(RFindChar(chunk0, "\n"), RFindPeriodSpace(chunk0))
    IN  IF end0 < Len(t) /\ last_break > size \div 2
        THEN st + last_break + 1
        ELSE end0

\* lines 72-80: where the window that starts at st ends
WindowEnd(t, size, st) ==
    LET end0 == st + size
        chunk0 == PySlice(t, st, end0)
        last_break == Max(RFindChar(chunk0, "\n"), RFindPeriodSpace(chunk0))
    IN  IF end0 < Len(t) /\ last_break > size \div 2
        THEN st + last_break + 1
        ELSE end0

\* line 85 leaving one character out between two windows
NextStartPastEnd(end, ov) == end + 1 - ov

\* line 85: where the next window starts
NextStart(end, ov) == end - ov

InitChunker ==
    /\ ck_pc = "call"
    /\ text \in SeqUpTo(Alphabet, MaxTextLen)
    /\ chunk_size \in 1..MaxSize
    /\ overlap \in 0..MaxSize
    /\ start = 0
    /\ chunks = <<>>
    /\ ck_prev = <<>>
    /\ ck_end = <<>>
    /\ ck_covered = {}
    /\ ck_kept = {}
    /\ ck_dropped = {}

\* a run of n letters
Run(n) == [k \in 1..n |-> "a"]

\* what a run of letters ends with
Separators == {<<>>, <<"\n">>, <<".", " ">>, <<" ", " ">>}

\* the blocks of a long text: runs around the minimum chunk length, separated
Blocks ==
    {Run(n) \o sep : n \in {0, MinChunkLen \div 2, MinChunkLen, MinChunkLen + 1},
                     sep \in Separators}

RECURSIVE Flatten(_)
Flatten(bs) == IF bs = <<>> THEN <<>> ELSE Head(bs) \o Flatten(Tail(bs))

\* chunk_text called on a long text with windows just above the minimum length
InitLongChunker ==
    /\ ck_pc = "call"
    /\ text \in {Flatten(bs) : bs \in SeqUpTo(Blocks, MaxBlocks)}
    /\ chunk_size \in {MinChunkLen + 2, MinChunkLen + 12}
    /\ overlap \in {0, 1, MinChunkLen \div 2, MinChunkLen + 2}
    /\ start = 0
    /\ chunks = <<>>
    /\ ck_prev = <<>>
    /\ ck_end = <<>>
    /\ ck_covered = {}
    /\ ck_kept = {}
    /\ ck_dropped = {}

\* chunk_text is not called
IdleChunker ==
    /\ ck_pc = "idle"
    /\ text = <<>>
    /\ chunk_size = 1
    /\ overlap = 0
    /\ start = 0
    /\ chunks = <<>>
    /\ ck_prev = <<>>
    /\ ck_end = <<>>
    /\ ck_covered = {}
    /\ ck_kept = {}
    /\ ck_dropped = {}

\* lines 64-69: an empty text returns at once, otherwise the loop is entered
ChunkCall ==
    /\ ck_pc = "call"
    /\ ck_pc' = IF text = <<>> THEN "done" ELSE "loop"
    /\ start' = 0
    /\ chunks' = <<>>
    /\ UNCHANGED <<text, chunk_size, overlap, ck_prev, ck_end, ck_covered, ck_kept,
                   ck_dropped>>
    /\ UNCHANGED notChunkVars

\* lines 71-85: one iteration of the loop. A start below -(len + size + overlap)
\* only moves further down (overlap > chunk_size); the model stops following it.
ChunkLoop ==
    /\ ck_pc = "loop"
    /\ start < Len(text)
    /\ start >= 0 - (Len(text) + chunk_size + overlap)
    /\ Len(chunks) < MaxChunks
    /\ LET end == WindowEnd(text, chunk_size, start)
           chunk == PySlice(text, start, end)
           window == SlicePositions(text, start, end)
       IN  /\ chunks' = IF KeepChunk(chunk)
                        THEN Append(chunks, Strip(chunk))
                        ELSE chunks
           /\ start' = NextStart(end, overlap)
           /\ ck_end' = <<end>>
           /\ ck_covered' = ck_covered \cup window
           /\ ck_kept' = IF KeepChunk(chunk)
                         THEN ck_kept \cup StrippedPositions(text, window)
                         ELSE ck_kept
           /\ ck_dropped' = IF KeepChunk(chunk)
                            THEN ck_dropped
                            ELSE ck_dropped \cup window
    /\ ck_prev' = <<start>>
    /\ UNCHANGED <<ck_pc, text, chunk_size, overlap>>
    /\ UNCHANGED notChunkVars

\* lines 71 and 87: the loop ends when start reaches the text length
ChunkReturn ==
    /\ ck_pc = "loop"
    /\ start >= Len(text)
    /\ ck_pc' = "done"
    /\ UNCHANGED <<text, chunk_size, overlap, start, chunks, ck_prev, ck_end,
                   ck_covered, ck_kept, ck_dropped>>
    /\ UNCHANGED notChunkVars

NextChunker ==
    \/ ChunkCall
    \/ ChunkLoop
    \/ ChunkReturn

\* ------------------------------------------------------------------------
\* Ingestion: main and process_file
\* ------------------------------------------------------------------------

\* object names, as the words they are made of
BlobNames ==
    {<<"ICMR", "tb", ".json">>,
     <<"Diabetes", "care", ".json">>,
     <<"icmr", "diabetes", ".json">>,
     <<"who", "malaria", ".json">>,
     <<"ICMR", "diabetes", ".pdf">>}

\* str.lower() on a word
Lower(w) ==
    CASE w = "ICMR" -> "icmr"
      [] w = "Diabetes" -> "diabetes"
      [] OTHER -> w

\* blob.name.lower()
NameLower(name) == [k \in 1..Len(name) |-> Lower(name[k])]

\* blob.name.endswith('.json')
EndsWithJson(name) == name[Len(name)] = ".json"

\* word in name
Contains(name, w) == \E k \in 1..Len(name) : name[k] = w

\* line 150: a batch is committed when it holds this many writes
BatchSize == 100

\* what an object holds: bytes that are no JSON, JSON without a 'text' entry,
\* or JSON whose text chunk_text cuts into `chunks` chunks
Contents ==
    {[kind |-> "invalid_json", chunks |-> 0], [kind |-> "no_text", chunks |-> 0]}
    \cup {[kind |-> "text", chunks |-> n] : n \in {5, BatchSize + 1}}

Blobs ==
    {[name |-> n, content |-> c] : n \in {m \in BlobNames : EndsWithJson(m)},
                                   c \in Contents}
    \cup {[name |-> n, content |-> [kind |-> "invalid_json", chunks |-> 0]] :
            n \in {m \in BlobNames : ~EndsWithJson(m)}}

\* the listings of a bucket of at most n objects: names are unique in a bucket
Buckets(n) ==
    {b \in SeqUpTo(Blobs, n) :
        \A j, k \in 1..Len(b) : j # k => b[j].name # b[k].name}

NoBlob == [name |-> <<>>, content |-> [kind |-> "invalid_json", chunks |-> 0]]

\* the values hash() takes on a name; Python never returns -1
HashValues == {-2, 1, 2}

Abs(x) == IF x < 0 THEN 0 - x ELSE x

\* line 126: chunk_id = f"{abs(hash(blob.name))}_{i}"
ChunkId(name, i) == <<Abs(py_hash[name]), i>>

\* lines 135-145: doc_data of chunk i of the object called name
DocData(name, i) == [chunk_id |-> ChunkId(name, i), content |-> <<name, i>>]

\* batch.commit(): every staged write is an upsert by document id
Commit(st, b) ==
    LET ids == {b[k].chunk_id : k \in 1..Len(b)}
        last == {k \in 1..Len(b) :
                    \A m \in (k + 1)..Len(b) : b[m].chunk_id # b[k].chunk_id}
    IN  {r \in st : r.chunk_id \notin ids} \cup {b[k] : k \in last}

\* lines 210-218 without the lower() of line 212
DiabetesBlobsCaseSensitive(all_blobs) ==
    SelectSeq(all_blobs,
              LAMBDA b : EndsWithJson(b.name) /\ Contains(b.name, "diabetes"))

\* lines 210-218: the objects main puts on diabetes_blobs
DiabetesBlobs(all_blobs) ==
    SelectSeq(all_blobs,
              LAMBDA b : EndsWithJson(b.name) /\ Contains(NameLower(b.name), "diabetes"))

\* lines 210-218: the objects main puts on other_icmr_blobs
OtherIcmrBlobs(all_blobs) ==
    SelectSeq(all_blobs,
              LAMBDA b : /\ EndsWithJson(b.name)
                         /\ ~Contains(NameLower(b.name), "diabetes")
                         /\ Contains(NameLower(b.name), "icmr"))

\* the list of the running loop of main
LoopBlobs == IF in_loop = "diabetes" THEN diabetes_blobs ELSE other_icmr_blobs

\* the names this process hashes
HashedNames(all_blobs) ==
    {DiabetesBlobs(all_blobs)[k].name : k \in 1..Len(DiabetesBlobs(all_blobs))}
    \cup {OtherIcmrBlobs(all_blobs)[k].name : k \in 1..Len(OtherIcmrBlobs(all_blobs))}

\* the state of a process before main runs, over the bucket and store given
ProcessStart ==
    /\ in_pc = "main"
    /\ py_hash = <<>>
    /\ diabetes_blobs = <<>>
    /\ other_icmr_blobs = <<>>
    /\ in_loop = "diabetes"
    /\ in_k = 0
    /\ blob = NoBlob
    /\ chunks_n = 0
    /\ pf_i = 0
    /\ batch = <<>>
    /\ batch_count = 0
    /\ in_processed = <<>>
    /\ in_embedded = {}
    /\ in_failed = {}
    /\ in_committed = <<>>
    /\ in_returned = "none"
    /\ in_ncommits = 0
    /\ in_last_io = "none"

InitIngest ==
    /\ bucket \in Buckets(MaxBlobs)
    /\ store = {}
    /\ in_run = 1
    /\ in_clean = TRUE
    /\ in_prev_ids = {}
    /\ ProcessStart

InitReingest ==
    /\ bucket \in Buckets(MaxReingestBlobs)
    /\ store = {}
    /\ in_run = 1
    /\ in_clean = TRUE
    /\ in_prev_ids = {}
    /\ ProcessStart

\* no ingestion runs
IdleIngest ==
    /\ bucket = <<>>
    /\ store = {}
    /\ in_run = 0
    /\ in_clean = TRUE
    /\ in_prev_ids = {}
    /\ in_pc = "idle"
    /\ py_hash = <<>>
    /\ diabetes_blobs = <<>>
    /\ other_icmr_blobs = <<>>
    /\ in_loop = "diabetes"
    /\ in_k = 0
    /\ blob = NoBlob
    /\ chunks_n = 0
    /\ pf_i = 0
    /\ batch = <<>>
    /\ batch_count = 0
    /\ in_processed = <<>>
    /\ in_embedded = {}
    /\ in_failed = {}
    /\ in_committed = <<>>
    /\ in_returned = "none"
    /\ in_ncommits = 0
    /\ in_last_io = "none"

\* main, lines 204-224: list the bucket, sort the objects into the two lists,
\* enter the first loop. This process's hash() is fixed from here on.
ScanBucket ==
    /\ in_pc = "main"
    /\ diabetes_blobs' = DiabetesBlobs(bucket)
    /\ other_icmr_blobs' = OtherIcmrBlobs(bucket)
    /\ py_hash' \in [HashedNames(bucket) -> HashValues]
    /\ in_loop' = "diabetes"
    /\ in_k' = 1
    /\ in_pc' = "loop"
    /\ UNCHANGED <<bucket, store, in_run, blob, chunks_n, pf_i, batch,
                   batch_count, in_processed, in_embedded, in_failed,
                   in_committed, in_returned, in_ncommits, in_last_io,
                   in_clean, in_prev_ids>>
    /\ UNCHANGED notIngestVars

\* main, lines 225-231, and process_file, lines 102-123: the next object of the
\* running loop is downloaded, parsed and cut into chunks; a download error,
\* invalid JSON and a missing text end the call
OpenFile ==
    /\ in_pc = "loop"
    /\ in_k <= Len(LoopBlobs)
    /\ LET b == LoopBlobs[in_k]
       IN  /\ blob' = b
           /\ in_processed' = Append(in_processed, b.name)
           /\ \E downloaded \in BOOLEAN :
                /\ in_returned' =
                      IF ~downloaded THEN "download_error"
                      ELSE IF b.content.kind = "text" THEN "none"
                      ELSE b.content.kind
                /\ in_clean' = (in_clean /\ downloaded)
           /\ chunks_n' = b.content.chunks
    /\ IF in_returned' = "none"
       THEN in_pc' = "chunks" /\ in_k' = in_k
       ELSE in_pc' = "loop" /\ in_k' = in_k + 1
    /\ pf_i' = 0
    /\ batch' = <<>>
    /\ batch_count' = 0
    /\ in_embedded' = {}
    /\ in_failed' = {}
    /\ in_committed' = <<>>
    /\ UNCHANGED <<bucket, store, in_run, py_hash, diabetes_blobs,
                   other_icmr_blobs, in_loop, in_ncommits, in_last_io,
                   in_prev_ids>>
    /\ UNCHANGED notIngestVars

\* the indexes staged in batch b
StagedIndexes(b) == [k \in 1..Len(b) |-> b[k].content[2]]

\* lines 129-133: the embedding of chunk pf_i failed for good; the loop goes on
\* at chunk next_i
SkipChunk(next_i) ==
    /\ in_failed' = in_failed \cup {pf_i}
    /\ in_clean' = FALSE
    /\ pf_i' = next_i
    /\ UNCHANGED <<in_pc, store, batch, batch_count, in_embedded,
                   in_committed, in_ncommits, in_last_io>>

\* line 150 with > where it has >=
BatchFullOneLate(count) == count > BatchSize

\* line 150: if batch_count >= 100
BatchFull(count) == count >= BatchSize

\* lines 135-155: chunk pf_i is staged; a full batch is committed and followed
\* by a pause; a failed commit raises out of process_file and main
StageChunk ==
    /\ in_embedded' = in_embedded \cup {pf_i}
    /\ UNCHANGED <<in_failed, in_clean>>
    /\ LET staged == Append(batch, DocData(blob.name, pf_i))
       IN  IF BatchFull(batch_count + 1)
           THEN \E written \in BOOLEAN :
                  IF written
                  THEN /\ store' = Commit(store, staged)
                       /\ in_committed' = in_committed \o StagedIndexes(staged)
                       /\ batch' = <<>>
                       /\ batch_count' = 0
                       /\ in_ncommits' = in_ncommits + 1
                       /\ in_last_io' = "pause"
                       /\ pf_i' = pf_i + 1
                       /\ in_pc' = "chunks"
                  ELSE /\ in_pc' = "crashed"
                       /\ batch' = staged
                       /\ batch_count' = batch_count + 1
                       /\ in_ncommits' = in_ncommits + 1
                       /\ in_last_io' = "commit"
                       /\ UNCHANGED <<store, in_committed, pf_i>>
           ELSE /\ batch' = staged
                /\ batch_count' = batch_count + 1
                /\ pf_i' = pf_i + 1
                /\ UNCHANGED <<in_pc, store, in_committed, in_ncommits,
                               in_last_io>>

\* process_file with `break` where line 133 has `continue`
ProcessChunkBreakingOnFailure ==
    /\ in_pc = "chunks"
    /\ pf_i < chunks_n
    /\ \E embedded \in {TRUE} \cup {e \in {FALSE} : pf_i <= MaxFailIndex} :
         IF embedded THEN StageChunk ELSE SkipChunk(chunks_n)
    /\ UNCHANGED <<bucket, in_run, py_hash, diabetes_blobs, other_icmr_blobs,
                   in_loop, in_k, blob, chunks_n, in_processed, in_returned,
                   in_prev_ids>>
    /\ UNCHANGED notIngestVars

\* process_file, lines 125-155: one pass of the chunk loop. The embedding either
\* succeeds (possibly after retries) or fails for good, and then the chunk is
\* skipped
ProcessChunk ==
    /\ in_pc = "chunks"
    /\ pf_i < chunks_n
    /\ \E embedded \in {TRUE} \cup {e \in {FALSE} : pf_i <= MaxFailIndex} :
         IF embedded THEN StageChunk ELSE SkipChunk(pf_i + 1)
    /\ UNCHANGED <<bucket, in_run, py_hash, diabetes_blobs, other_icmr_blobs,
                   in_loop, in_k, blob, chunks_n, in_processed, in_returned,
                   in_prev_ids>>
    /\ UNCHANGED notIngestVars

\* process_file, lines 157-159: the last, partial batch is committed and the
\* call returns to the loop of main
FinishFile ==
    /\ in_pc = "chunks"
    /\ pf_i >= chunks_n
    /\ IF batch_count > 0
       THEN \E written \in BOOLEAN :
              /\ in_ncommits' = in_ncommits + 1
              /\ in_last_io' = "commit"
              /\ IF written
                 THEN /\ store' = Commit(store, batch)
                      /\ in_committed' = in_committed \o StagedIndexes(batch)
                      /\ in_returned' = "complete"
                      /\ in_pc' = "loop"
                      /\ in_k' = in_k + 1
                 ELSE /\ in_pc' = "crashed"
                      /\ UNCHANGED <<store, in_committed, in_returned, in_k>>
       ELSE /\ in_returned' = "complete"
            /\ in_pc' = "loop"
            /\ in_k' = in_k + 1
            /\ UNCHANGED <<store, in_committed, in_ncommits, in_last_io>>
    /\ UNCHANGED <<bucket, in_run, py_hash, diabetes_blobs, other_icmr_blobs,
                   in_loop, blob, chunks_n, pf_i, batch, batch_count,
                   in_processed, in_embedded, in_failed, in_clean, in_prev_ids>>
    /\ UNCHANGED notIngestVars

\* main, lines 228-231: the first loop is over, the second one starts
NextLoop ==
    /\ in_pc = "loop"
    /\ in_loop = "diabetes"
    /\ in_k > Len(diabetes_blobs)
    /\ in_loop' = "others"
    /\ in_k' = 1
    /\ UNCHANGED <<in_pc, bucket, store, in_run, py_hash, diabetes_blobs,
                   other_icmr_blobs, blob, chunks_n, pf_i, batch, batch_count,
                   in_processed, in_embedded, in_failed, in_committed,
                   in_returned, in_ncommits, in_last_io, in_clean, in_prev_ids>>
    /\ UNCHANGED notIngestVars

\* main, line 231: the second loop is over, main returns
MainReturn ==
    /\ in_pc = "loop"
    /\ in_loop = "others"
    /\ in_k > Len(other_icmr_blobs)
    /\ in_pc' = "done"
    /\ UNCHANGED <<bucket, store, in_run, py_hash, diabetes_blobs,
                   other_icmr_blobs, in_loop, in_k, blob, chunks_n, pf_i, batch,
                   batch_count, in_processed, in_embedded, in_failed,
                   in_committed, in_returned, in_ncommits, in_last_io,
                   in_clean, in_prev_ids>>
    /\ UNCHANGED notIngestVars

\* lines 233-234: the script is started again, in a new process, over the same
\* bucket and the same chunk store
RunAgain ==
    /\ in_pc = "done"
    /\ in_run < MaxRuns
    /\ in_run' = in_run + 1
    /\ in_prev_ids' = {r.chunk_id : r \in store}
    /\ in_pc' = "main"
    /\ py_hash' = <<>>
    /\ diabetes_blobs' = <<>>
    /\ other_icmr_blobs' = <<>>
    /\ in_loop' = "diabetes"
    /\ in_k' = 0
    /\ blob' = NoBlob
    /\ chunks_n' = 0
    /\ pf_i' = 0
    /\ batch' = <<>>
    /\ batch_count' = 0
    /\ in_processed' = <<>>
    /\ in_embedded' = {}
    /\ in_failed' = {}
    /\ in_committed' = <<>>
    /\ in_returned' = "none"
    /\ in_ncommits' = 0
    /\ in_last_io' = "none"
    /\ UNCHANGED <<bucket, store, in_clean>>
    /\ UNCHANGED notIngestVars

NextIngest ==
    \/ ScanBucket
    \/ OpenFile
    \/ ProcessChunk
    \/ FinishFile
    \/ NextLoop
    \/ MainReturn

NextReingest ==
    \/ NextIngest
    \/ RunAgain

\* ------------------------------------------------------------------------
\* Configuration: model selector and startup validation
\* ------------------------------------------------------------------------

\* GeminiModelSelector.ALLOWED_MODELS
ALLOWED_MODELS ==
    {"gemini-3.0-flash-thinking-exp-01-21", "gemini-3.0-pro-exp-02-05",
     "text-embedding-004"}

\* the model fields of GeminiConfig with the default each takes when its
\* environment variable is unset (lines 65-84)
ModelDefaults ==
    [flash_model     |-> "gemini-3-flash-preview",
     pro_model       |-> "gemini-3-pro-preview",
     agent_1_model   |-> "gemini-3-flash-preview",
     agent_5_model   |-> "gemini-3-pro-preview",
     agent_6_model   |-> "gemini-3-pro-preview",
     agent_7_model   |-> "gemini-3-flash-preview",
     embedding_model |-> "text-embedding-004",
     fallback_model  |-> "gemini-3-flash-preview"]

ModelFields == DOMAIN ModelDefaults

\* the value an environment variable gives a model field when it is set
ModelOverrides ==
    [flash_model     |-> "gemini-3.0-flash-thinking-exp-01-21",
     pro_model       |-> "gemini-3.0-pro-exp-02-05",
     agent_1_model   |-> "gemini-3.0-flash-thinking-exp-01-21",
     agent_5_model   |-> "gemini-3.0-pro-exp-02-05",
     agent_6_model   |-> "gemini-3.0-pro-exp-02-05",
     agent_7_model   |-> "gemini-3.0-flash-thinking-exp-01-21",
     embedding_model |-> "embedding-001",
     fallback_model  |-> "gemini-3.0-flash-thinking-exp-01-21"]

FlagFields ==
    {"use_pro_for_synthesis", "use_pro_for_complex_queries",
     "use_pro_for_contradictions"}

\* GeminiConfig when the environment sets the model variables in `set` and
\* the flag variables in `on` to true
GeminiConfigOf(set, on) ==
    [f \in ModelFields \cup FlagFields |->
        IF f \in ModelFields
        THEN (IF f \in set THEN ModelOverrides[f] ELSE ModelDefaults[f])
        ELSE f \in on]

\* the GeminiConfig records the environment can produce
GeminiConfigs ==
    {GeminiConfigOf(set, on) : set \in SUBSET ModelFields, on \in SUBSET FlagFields}

\* the priority fields of DataSourceConfig with their defaults (lines 97-101)
PriorityDefaults ==
    [priority_indian_guidelines |-> 1,
     priority_pubmed            |-> 2,
     priority_pmc_fulltext      |-> 3,
     priority_dailymed          |-> 4,
     priority_tavily_web        |-> 5]

PriorityFields == DOMAIN PriorityDefaults

\* the ranks the environment gives each priority field: its default or a
\* neighbouring rank
PriorityChoices ==
    [priority_indian_guidelines |-> {1, 2},
     priority_pubmed            |-> {1, 2},
     priority_pmc_fulltext      |-> {2, 3},
     priority_dailymed          |-> {3, 4},
     priority_tavily_web        |-> {4, 5, 6}]

\* the DataSourceConfig records the environment can produce
DataSourceConfigs ==
    {[f \in PriorityFields |-> PriorityDefaults[f] + d[f]] :
        d \in {e \in [PriorityFields -> {-1, 0, 1}] :
                 \A f \in PriorityFields :
                    PriorityDefaults[f] + e[f] \in PriorityChoices[f]}}

\* the selector has not been called
NoCall == [called |-> "none", score |-> 0, contradictions |-> FALSE,
           agent |-> "", model |-> "", raised |-> FALSE]

InitConfig ==
    /\ cf_pc = "import"
    /\ gemini_config \in GeminiConfigs
    /\ data_source_config \in DataSourceConfigs
    /\ cf_error = ""
    /\ cf_call = NoCall

\* the configuration module is not imported
IdleConfig ==
    /\ cf_pc = "idle"
    /\ gemini_config = GeminiConfigOf({}, {})
    /\ data_source_config = PriorityDefaults
    /\ cf_error = ""
    /\ cf_call = NoCall

\* GeminiModelSelector.validate_model
validate_model(model_name) == model_name \in ALLOWED_MODELS

\* validate_configuration, lines 240-248: the models it checks, in order
models_to_check ==
    <<gemini_config.flash_model, gemini_config.pro_model,
      gemini_config.embedding_model, gemini_config.agent_1_model,
      gemini_config.agent_5_model, gemini_config.agent_6_model,
      gemini_config.agent_7_model>>

\* validate_configuration, lines 255-261
priorities ==
    <<data_source_config.priority_indian_guidelines,
      data_source_config.priority_pubmed,
      data_source_config.priority_pmc_fulltext,
      data_source_config.priority_dailymed,
      data_source_config.priority_tavily_web>>

\* len(set(xs))
DistinctCount(xs) == Cardinality({xs[k] : k \in 1..Len(xs)})

\* validate_configuration: the message of the ValueError it raises, "" if none
ValidationError ==
    IF \E k \in 1..Len(models_to_check) : ~validate_model(models_to_check[k])
    THEN "Invalid Gemini model"
    ELSE IF DistinctCount(priorities) # Len(priorities)
    THEN "Data source priorities must be unique"
    ELSE IF data_source_config.priority_indian_guidelines # 1
    THEN "Indian Guidelines must have priority 1 (highest)"
    ELSE ""

\* line 313: the configuration is validated as the module is imported; a
\* ValueError makes the import fail
validate_configuration ==
    /\ cf_pc = "import"
    /\ cf_error' = ValidationError
    /\ cf_pc' = IF ValidationError = "" THEN "ready" ELSE "failed"
    /\ UNCHANGED <<gemini_config, data_source_config, cf_call>>
    /\ UNCHANGED notConfigVars

\* complexity scores are counted in tenths: the threshold 0.5 of line 201
ComplexityThreshold == 5

\* select_synthesis_model without the test of line 197
SelectIgnoringSynthesisFlag(complexity_score, has_contradictions) ==
    IF complexity_score > ComplexityThreshold /\ gemini_config.use_pro_for_complex_queries
    THEN gemini_config.pro_model
    ELSE IF has_contradictions /\ gemini_config.use_pro_for_contradictions
    THEN gemini_config.pro_model
    ELSE gemini_config.fallback_model

\* select_synthesis_model with >= for the > of line 201
SelectAtThreshold(complexity_score, has_contradictions) ==
    IF gemini_config.use_pro_for_synthesis
    THEN gemini_config.pro_model
    ELSE IF complexity_score >= ComplexityThreshold /\ gemini_config.use_pro_for_complex_queries
    THEN gemini_config.pro_model
    ELSE IF has_contradictions /\ gemini_config.use_pro_for_contradictions
    THEN gemini_config.pro_model
    ELSE gemini_config.fallback_model

\* GeminiModelSelector.select_synthesis_model
select_synthesis_model(complexity_score, has_contradictions) ==
    IF gemini_config.use_pro_for_synthesis
    THEN gemini_config.pro_model
    ELSE IF complexity_score > ComplexityThreshold /\ gemini_config.use_pro_for_complex_queries
    THEN gemini_config.pro_model
    ELSE IF has_contradictions /\ gemini_config.use_pro_for_contradictions
    THEN gemini_config.pro_model
    ELSE gemini_config.fallback_model

\* a call of select_synthesis_model on the imported module
SelectSynthesisModel ==
    /\ cf_pc = "ready"
    /\ \E complexity_score \in 0..MaxScore, has_contradictions \in BOOLEAN :
         cf_call' = [called |-> "select_synthesis_model",
                     score |-> complexity_score,
                     contradictions |-> has_contradictions,
                     agent |-> "",
                     model |-> select_synthesis_model(complexity_score, has_contradictions),
                     raised |-> FALSE]
    /\ UNCHANGED <<cf_pc, gemini_config, data_source_config, cf_error>>
    /\ UNCHANGED notConfigVars

\* GeminiModelSelector.get_agent_model, lines 212-217
agent_models ==
    [query_intelligence    |-> gemini_config.agent_1_model,
     evidence_gap_analyzer |-> gemini_config.agent_5_model,
     synthesis_engine      |-> gemini_config.agent_6_model,
     verification_gate     |-> gemini_config.agent_7_model]

\* the agent names get_agent_model is called with
AgentNames == DOMAIN agent_models \cup {"dailymed_retriever", ""}

\* the answer of a call: the model returned, or the ValueError raised
Returned(model) == [model |-> model, raised |-> FALSE]

Raised == [model |-> "", raised |-> TRUE]

\* get_agent_model answering the flash model for a name it does not know
GetAgentModelDefaulting(agent_name) ==
    IF agent_name \notin DOMAIN agent_models
    THEN Returned(gemini_config.flash_model)
    ELSE Returned(agent_models[agent_name])

\* GeminiModelSelector.get_agent_model, lines 219-222
get_agent_model(agent_name) ==
    IF agent_name \notin DOMAIN agent_models
    THEN Raised
    ELSE Returned(agent_models[agent_name])

\* a call of get_agent_model on the imported module
GetAgentModel ==
    /\ cf_pc = "ready"
    /\ \E agent_name \in AgentNames :
         cf_call' = [called |-> "get_agent_model",
                     score |-> 0,
                     contradictions |-> FALSE,
                     agent |-> agent_name,
                     model |-> get_agent_model(agent_name).model,
                     raised |-> get_agent_model(agent_name).raised]
    /\ UNCHANGED <<cf_pc, gemini_config, data_source_config, cf_error>>
    /\ UNCHANGED notConfigVars

NextConfig ==
    \/ validate_configuration
    \/ SelectSynthesisModel
    \/ GetAgentModel

\* every model identifier the configuration holds
ConfiguredModels == {gemini_config[f] : f \in ModelFields}

\* two sources share a priority rank
DuplicateRanks ==
    \E f, g \in PriorityFields : f # g /\ data_source_config[f] = data_source_config[g]

\* C8: startup validation raises if and only if some configured model
\* identifier is not in the allow-list, or two sources share a rank, or the
\* primary source does not hold rank 1; what it accepts has pairwise distinct
\* ranks with the primary source at rank 1.
C8_ValidationRaisesIffInvalid ==
    (cf_pc \in {"ready", "failed"}) =>
        /\ (cf_pc = "failed") <=>
              \/ \E m \in ConfiguredModels : m \notin ALLOWED_MODELS
              \/ DuplicateRanks
              \/ data_source_config.priority_indian_guidelines # 1
        /\ (cf_pc = "ready") =>
              /\ ~DuplicateRanks
              /\ data_source_config.priority_indian_guidelines = 1

\* C9: with use_pro_for_synthesis set, select_synthesis_model returns the pro
\* model for every complexity score and every contradiction flag.
C9_SynthesisAlwaysPro ==
    (cf_call.called = "select_synthesis_model" /\ gemini_config.use_pro_for_synthesis)
        => cf_call.model = gemini_config.pro_model

C9_Witness ==
    /\ cf_call.called = "select_synthesis_model"
    /\ gemini_config.use_pro_for_synthesis
    /\ cf_call.score <= ComplexityThreshold
    /\ ~cf_call.contradictions
    /\ gemini_config.fallback_model # gemini_config.pro_model

\* C10 as claimed: with use_pro_for_synthesis unset, select_synthesis_model
\* returns the pro model whenever the score exceeds the threshold or
\* contradictions are flagged, and the fallback model exactly when neither holds.
C10_EscalatesOnScoreOrContradiction ==
    (cf_call.called = "select_synthesis_model" /\ ~gemini_config.use_pro_for_synthesis)
        => cf_call.model =
              IF cf_call.score > ComplexityThreshold \/ cf_call.contradictions
              THEN gemini_config.pro_model
              ELSE gemini_config.fallback_model

\* C10 as amended: with use_pro_for_synthesis unset, select_synthesis_model
\* returns the pro model whenever the score exceeds the threshold and
\* use_pro_for_complex_queries is set, or contradictions are flagged and
\* use_pro_for_contradictions is set, and the fallback model exactly when
\* neither holds.
C10_EscalatesWhenPolicyAllows ==
    (cf_call.called = "select_synthesis_model" /\ ~gemini_config.use_pro_for_synthesis)
        => cf_call.model =
              IF \/ cf_call.score > ComplexityThreshold
                    /\ gemini_config.use_pro_for_complex_queries
                 \/ cf_call.contradictions /\ gemini_config.use_pro_for_contradictions
              THEN gemini_config.pro_model
              ELSE gemini_config.fallback_model

C10_Witness ==
    /\ cf_call.called = "select_synthesis_model"
    /\ ~gemini_config.use_pro_for_synthesis
    /\ gemini_config.use_pro_for_complex_queries
    /\ cf_call.score = ComplexityThreshold + 1
    /\ ~cf_call.contradictions
    /\ cf_call.model = gemini_config.pro_model
    /\ gemini_config.fallback_model # gemini_config.pro_model

\* C3: for 0 <= overlap < chunk_size, every iteration of the loop of chunk_text
\* moves start strictly forward, also when the window was shortened to a
\* newline or sentence break (so the loop ends).
C3_StartStrictlyIncreases ==
    (ck_prev # <<>> /\ 0 <= overlap /\ overlap < chunk_size) => start > ck_prev[1]

\* C4: chunk_text called with overlap >= chunk_size on a non-empty text fails
\* at once with an error: it never enters or leaves the loop.
C4_OverlapPreconditionEnforced ==
    (ck_pc \in {"loop", "done"} /\ text # <<>> /\ overlap >= chunk_size)
        => ck_pc = "error"

\* ------------------------------------------------------------------------
\* Ingestion: claims
\* ------------------------------------------------------------------------

\* the indexes in S, in increasing order
RECURSIVE Ascending(_)
Ascending(S) ==
    IF S = {} THEN <<>>
    ELSE LET m == CHOOSE x \in S : \A y \in S : x <= y
         IN  <<m>> \o Ascending(S \ {m})

\* C5: when process_file has gone through the chunks of a document and
\* returned, every chunk was either embedded or failed, the chunks written are
\* exactly the embedded ones in their order (n minus the failures), each is in
\* the store under the id of its own index, and no failed chunk is.
C5_EmbeddingFailuresSkipped ==
    in_returned = "complete" =>
        /\ in_embedded \cup in_failed = 0..(chunks_n - 1)
        /\ in_committed = Ascending(in_embedded)
        /\ Len(in_committed) = chunks_n - Cardinality(in_failed)
        /\ \A i \in in_embedded : DocData(blob.name, i) \in store
        /\ \A i \in in_failed : DocData(blob.name, i) \notin store

\* a document of 5 chunks whose third chunk alone failed has returned with 4
\* chunks written
C5_Witness ==
    /\ in_returned = "complete"
    /\ chunks_n = 5
    /\ in_failed = {2}
    /\ Len(in_committed) = 4
    /\ {<<blob.name, i>> : i \in {0, 1, 3, 4}} \subseteq {r.content : r \in store}

\* C6: after a second or later run over the same bucket in which no download
\* and no embedding failed, the store holds the ids it held before that run,
\* and as many records.
C6_ReingestKeepsIds ==
    (in_run > 1 /\ in_pc = "done" /\ in_clean) =>
        /\ {r.chunk_id : r \in store} = in_prev_ids
        /\ Cardinality(store) = Cardinality(in_prev_ids)

\* the documents main has scheduled, in the order of its two loops
Scheduled ==
    [k \in 1..(Len(diabetes_blobs) + Len(other_icmr_blobs)) |->
        IF k <= Len(diabetes_blobs)
        THEN diabetes_blobs[k].name
        ELSE other_icmr_blobs[k - Len(diabetes_blobs)].name]

\* C7: when the run is over, however it ended, every scheduled document has
\* been handed to process_file.
C7_DocumentFailuresIsolated ==
    in_pc \in {"done", "crashed"} => in_processed = Scheduled

\* ------------------------------------------------------------------------
\* Model selector: further claims
\* ------------------------------------------------------------------------

\* C11: get_agent_model returns the configured model for each of the four
\* known agent names and raises for every other name; it never returns a
\* model for a name it does not know.
C11_UnknownAgentRaises ==
    cf_call.called = "get_agent_model" =>
        CASE cf_call.agent = "query_intelligence" ->
                ~cf_call.raised /\ cf_call.model = gemini_config.agent_1_model
          [] cf_call.agent = "evidence_gap_analyzer" ->
                ~cf_call.raised /\ cf_call.model = gemini_config.agent_5_model
          [] cf_call.agent = "synthesis_engine" ->
                ~cf_call.raised /\ cf_call.model = gemini_config.agent_6_model
          [] cf_call.agent = "verification_gate" ->
                ~cf_call.raised /\ cf_call.model = gemini_config.agent_7_model
          [] OTHER -> cf_call.raised /\ cf_call.model = ""

\* get_agent_model was called with a name that is no agent's
C11_Witness ==
    /\ cf_call.called = "get_agent_model"
    /\ cf_call.agent = "dailymed_retriever"
    /\ cf_call.raised

\* C12: in a configuration that passed startup validation, every model that
\* select_synthesis_model or get_agent_model returns is in the allow-list.
C12_SelectedModelsAllowed ==
    (cf_pc = "ready" /\ cf_call.called # "none" /\ ~cf_call.raised)
        => cf_call.model \in ALLOWED_MODELS

\* ------------------------------------------------------------------------
\* chunk_text: further claims
\* ------------------------------------------------------------------------

\* 0 <= overlap < chunk_size
ValidWindow == 0 <= overlap /\ overlap < chunk_size

\* C13: no chunk of trimmed length 50 or less is ever in the output of
\* chunk_text, whatever the text, the size and the overlap; what is in the
\* output is trimmed.
C13_ShortChunksDropped ==
    \A k \in 1..Len(chunks) :
        /\ Len(chunks[k]) > MinChunkLen
        /\ Strip(chunks[k]) = chunks[k]

\* the call has appended a chunk and has dropped a window that held text
C13_Witness ==
    /\ Len(chunks) >= 1
    /\ \E p \in ck_dropped : text[p + 1] \notin Whitespace

\* C14 as claimed: when chunk_text returns for a valid size and overlap, no
\* stretch of the text longer than overlap characters is missing from every
\* returned chunk.
C14_ChunksCoverText ==
    (ck_pc = "done" /\ ValidWindow) =>
        \A p \in 0..(Len(text) - 1 - overlap) :
            \E q \in p..(p + overlap) : q \in ck_kept

\* C14 as amended: when chunk_text returns for a valid size and overlap, the
\* windows it walked cover the whole text, and a character is in no returned
\* chunk only if it is whitespace trimmed off its window or lies in a window
\* that was dropped for its trimmed length of 50 or less.
C14_WindowsCoverText ==
    (ck_pc = "done" /\ ValidWindow) =>
        /\ ck_covered = 0..(Len(text) - 1)
        /\ \A p \in 0..(Len(text) - 1) :
              p \in ck_kept \/ p \in ck_dropped \/ text[p + 1] \in Whitespace

\* a call that returned chunks after dropping a window and trimming another
C14_Witness ==
    /\ ck_pc = "done"
    /\ ValidWindow
    /\ Len(chunks) >= 1
    /\ ck_dropped # {}
    /\ \E p \in ck_covered : p \notin ck_kept /\ p \notin ck_dropped

\* C15: every chunk in the output of chunk_text is at most chunk_size long,
\* whether its window was shortened or not.
C15_ChunkLengthBounded ==
    \A k \in 1..Len(chunks) : Len(chunks[k]) <= chunk_size

\* the output holds a chunk of a full window and the last window, shortened
\* to a break, gave a chunk too
C15_Witness ==
    /\ \E k \in 1..Len(chunks) : Len(chunks[k]) = chunk_size
    /\ ck_end # <<>>
    /\ ck_end[1] < ck_prev[1] + chunk_size
    /\ ck_end[1] < Len(text)
    /\ ck_prev[1] \in ck_kept
    /\ ck_prev[1] >= chunk_size - overlap

\* C20: every iteration of the loop of chunk_text moves start forward by
\* exactly chunk_size - overlap, so that each window starts chunk_size -
\* overlap characters after the one before and shares overlap characters with it.
C20_AdvancesBySizeMinusOverlap ==
    (ck_prev # <<>> /\ ValidWindow) =>
        /\ start = ck_prev[1] + chunk_size - overlap
        /\ start = ck_end[1] - overlap

\* ------------------------------------------------------------------------
\* Retrieval agent: further claims
\* ------------------------------------------------------------------------

\* the records of entity i in a result list
RecordsOf(rs, i) == {k \in 1..Len(rs) : rs[k].setid[1] = i}

\* C16: a call over n entities with max_results_per_drug = m whose metrics
\* record is accepted returns success = true with at most m records for each
\* entity and at most n * m in all, however many summaries the search returned.
C16_AtMostMaxResultsPerEntity ==
    (outcome.returned /\ drug_names # <<>> /\ ag_metrics # <<>>) =>
        /\ outcome.success
        /\ \A i \in 1..Len(drug_names) :
              Cardinality(RecordsOf(outcome.results, i)) <= max_results
        /\ Len(outcome.results) <= Len(drug_names) * max_results

\* two entities, m = 2, every fetch answered, the last search with more than
\* m summaries: 4 records are returned
C16_Witness ==
    /\ outcome.returned
    /\ outcome.success
    /\ Len(drug_names) = 2
    /\ max_results = 2
    /\ spls > max_results
    /\ Cardinality(RecordsOf(outcome.results, 2)) = 2
    /\ Len(outcome.results) = 4

\* ------------------------------------------------------------------------
\* Section parser: claims
\* ------------------------------------------------------------------------

\* the document parses and none of its elements carries a configured code
NoConfiguredElement ==
    /\ xml_content.wellformed
    /\ \A k \in 1..Len(xml_content.elements) :
          xml_content.elements[k].code \notin ConfiguredCodes

\* the titles the searchable text gives the configured sections
StructuredTitles == {Title(section_codes[k].name) : k \in 1..Len(section_codes)}

\* C17: a document without any element of a configured code parses to exactly
\* one section, full_text, of at most 5000 characters, and the searchable text
\* of its record carries none of the titles of the configured sections.
C17_UnmatchedDocumentIsFullText ==
    (ps_pc = "done" /\ NoConfiguredElement) =>
        /\ Len(sections) = 1
        /\ sections[1].name = "full_text"
        /\ sections[1].len <= MaxFullTextLen
        /\ \A k \in 1..Len(text_for_search) :
              text_for_search[k].title \notin StructuredTitles

\* C18: markup that does not parse never ends the call, and its document is
\* either extracted as unstructured text or left out: no record with an empty
\* section map is among the records fetched; the remaining documents and
\* entities are gone through, and the call returns success = true when the
\* metrics record is accepted.
C18_MalformedMarkupSkipped ==
    /\ \A k \in 1..Len(ag_fetched) : ag_fetched[k].sections # "empty"
    /\ (outcome.returned /\ drug_names # <<>> /\ ag_metrics # <<>>) =>
          /\ outcome.success
          /\ ag_searched = 1..Len(drug_names)

\* ------------------------------------------------------------------------
\* Ingestion: further claims
\* ------------------------------------------------------------------------

\* the name contains 'diabetes', in whatever case
IsDiabetesName(name) == Contains(NameLower(name), "diabetes")

\* the .json documents of the bucket that match the target condition
TargetDocuments ==
    {bucket[k].name : k \in {j \in 1..Len(bucket) :
        EndsWithJson(bucket[j].name) /\ IsDiabetesName(bucket[j].name)}}

\* the documents handed to process_file before the k-th one
ProcessedBefore(k) == {in_processed[m] : m \in 1..(k - 1)}

\* C19: at every point of an ingestion run, a document that does not match the
\* target condition has been handed to process_file, or has a chunk in the
\* store, only after every .json document of the bucket that matches it.
C19_DiabetesDocumentsFirst ==
    /\ \A k \in 1..Len(in_processed) :
          ~IsDiabetesName(in_processed[k]) => TargetDocuments \subseteq ProcessedBefore(k)
    /\ \A r \in store :
          ~IsDiabetesName(r.content[1]) =>
              TargetDocuments \subseteq {in_processed[m] : m \in 1..Len(in_processed)}

\* the bucket lists a generic document before a target one, and both have
\* been ingested, the target one first
C19_Witness ==
    /\ in_pc = "done"
    /\ Len(bucket) = 2
    /\ ~IsDiabetesName(bucket[1].name)
    /\ IsDiabetesName(bucket[2].name)
    /\ in_processed = <<bucket[2].name, bucket[1].name>>
    /\ \E r \in store : r.content[1] = bucket[1].name
    /\ \E r \in store : r.content[1] = bucket[2].name

\* the elements of the document that carry the code
Matching(code) == SelectSeq(xml_content.elements, LAMBDA e : e.code = code)

\* the section of that name in the section map, as a set
SectionsNamed(name) == {k \in 1..Len(sections) : sections[k].name = name}

\* C21: a configured section is left out of the section map exactly when the
\* texts of all elements of its code are together shorter than 20 characters;
\* otherwise it is there once, with at most 3000 characters.
C21_SectionOmittedIffCombinedShort ==
    (ps_pc \in {"parsed", "done"} /\ xml_content.wellformed) =>
        \A c \in 1..Len(section_codes) :
            LET combined == TotalLen(Matching(section_codes[c].code))
                found == SectionsNamed(section_codes[c].name)
            IN  /\ (found = {}) <=> (combined < MinSectionLen)
                /\ \A k \in found : sections[k].len <= MaxSectionLen
                /\ Cardinality(found) <= 1

\* the index of a title in the searchable text
PartsTitled(title) == {k \in 1..Len(text_for_search) : text_for_search[k].title = title}

\* the place of a section name in priority_sections, 0 if it is not there
PriorityRank(name) ==
    IF InPriority(name)
    THEN CHOOSE k \in 1..Len(priority_sections) : priority_sections[k] = name
    ELSE 0

C23_BatchesPartitionEmbeddedChunks ==
    /\ Len(batch) <= BatchSize
    /\ batch_count <= BatchSize
    /\ \A k \in 1..(Len(in_committed) - 1) : in_committed[k] < in_committed[k + 1]
    /\ in_returned = "complete" =>
          /\ {in_committed[k] : k \in 1..Len(in_committed)} = in_embedded
          /\ Cardinality(in_embedded) = Len(in_committed)
          /\ \A i \in in_embedded : DocData(blob.name, i) \in store

\* a document of one chunk more than a batch, all embedded, has returned: a
\* full batch and a last batch of one were committed
C23_Witness ==
    /\ in_returned = "complete"
    /\ chunks_n = BatchSize + 1
    /\ in_failed = {}
    /\ Len(in_committed) = BatchSize + 1
    /\ in_committed[BatchSize + 1] = BatchSize
    /\ Len(batch) = 1

\* C24: a batch commit that succeeds never follows another batch commit of the
\* run without a pause in between.
C24_PauseBetweenCommits ==
    [][(in_ncommits' > in_ncommits /\ in_pc' # "crashed") =>
            in_last_io # "commit"]_vars

\* the number of times a name was handed to process_file
TimesProcessed(name) ==
    Cardinality({m \in 1..Len(in_processed) : in_processed[m] = name})

\* C27: when the run is over, every object of the bucket whose name ends in
\* .json has been handed to process_file exactly once.
C27_EveryJsonObjectIngestedOnce ==
    in_pc = "done" =>
        \A k \in 1..Len(bucket) :
            EndsWithJson(bucket[k].name) => TimesProcessed(bucket[k].name) = 1

\* C28: two different (object name, chunk index) pairs of a run never get the
\* same chunk id, and after a run without failures every chunk of every
\* document with text is in the store under its own content.
C28_ChunkIdsDistinct ==
    /\ \A a, b \in DOMAIN py_hash : \A i, j \in 0..1 :
          <<a, i>> # <<b, j>> => ChunkId(a, i) # ChunkId(b, j)
    /\ (in_pc = "done" /\ in_clean) =>
          \A k \in 1..Len(bucket) :
              (bucket[k].name \in DOMAIN py_hash /\ bucket[k].content.kind = "text") =>
                  \A i \in 0..(bucket[k].content.chunks - 1) :
                      DocData(bucket[k].name, i) \in store

\* ------------------------------------------------------------------------
\* Retrieval agent: pacing and metrics
\* ------------------------------------------------------------------------

\* the entities that have a record in the list
EntitiesOf(records) == {records[k].setid[1] : k \in 1..Len(records)}

\* C25: at most one request is in flight at any time, a request is in flight
\* only while the call awaits its answer, and when the search of an entity has
\* been sent the rate-limit sleep has been taken after every earlier entity,
\* whatever became of that entity's search.
C25_OneRequestAtATimeAndPaced ==
    /\ ag_inflight <= 1
    /\ ag_inflight = 1 <=> ag_pc \in {"await_search", "await_fetch"}
    /\ \A i \in ag_searched : \A j \in 1..(i - 1) : j \in ag_slept

\* the search of the second entity is out after the first entity failed with
\* a record already fetched, which was dropped
C25_Witness ==
    /\ ag_pc = "await_search"
    /\ ag_i = 2
    /\ ag_inflight = 1
    /\ 1 \in EntitiesOf(ag_fetched)
    /\ 1 \notin EntitiesOf(all_results)
    /\ 1 \in ag_slept

\* C26: a call with entities that has returned has emitted exactly one metrics
\* record and returns success with the records the search found, whether the
\* sink accepted the record or not.
C26_MetricsArePureSideEffect ==
    (outcome.returned /\ drug_names # <<>>) =>
        /\ Len(ag_metrics) = 1
        /\ outcome.success
        /\ outcome.results = all_results

\* ------------------------------------------------------------------------
\* Configuration: defaults
\* ------------------------------------------------------------------------

\* C29: the configuration that sets the flash and pro model variables to the
\* allow-listed identifiers and leaves every other setting at its default
\* passes validate_configuration.
C29_DefaultsPassValidation ==
    (/\ cf_pc \in {"ready", "failed"}
     /\ gemini_config = GeminiConfigOf({"flash_model", "pro_model"}, FlagFields)
     /\ data_source_config = PriorityDefaults)
        => cf_pc = "ready"

\* ------------------------------------------------------------------------
\* delete_collection of scripts/clear-firestore-chunks.py
\* ------------------------------------------------------------------------

\* the interpreter's limit on the depth of active calls
\* (sys.getrecursionlimit() of CPython), which the call of line 21 runs into
RecursionLimit == 1000

\* the calls active when main calls delete_collection: the module and main
BaseFrames == 2

\* delete_collection has not returned anything
NoResult == -1

\* main, lines 28-31: delete_collection(coll_ref, batch_size) is called on a
\* collection no one else writes to
InitDelete ==
    /\ dl_pc = "call"
    /\ coll_size \in 0..MaxDocs \cup {RecursionLimit}
    /\ coll_docs = coll_size
    /\ batch_size \in 1..MaxBatchSize
    /\ docs = 0
    /\ deleted = 0
    /\ dl_depth = 1
    /\ dl_full_pages = 0
    /\ dl_result = NoResult

\* the script is not run
IdleDelete ==
    /\ dl_pc = "idle"
    /\ coll_size = 0
    /\ coll_docs = 0
    /\ batch_size = 1
    /\ docs = 0
    /\ deleted = 0
    /\ dl_depth = 0
    /\ dl_full_pages = 0
    /\ dl_result = NoResult

\* lines 11-13: a call is entered and asks for a page of at most batch_size
\* documents; when the active calls and the calls the store client needs
\* exceed the interpreter's limit, RecursionError is raised
EnterCall ==
    /\ dl_pc = "call"
    /\ \E lib \in 0..MaxLibFrames :
         IF BaseFrames + dl_depth + lib > RecursionLimit
         THEN /\ dl_pc' = "raised"
              /\ UNCHANGED <<docs, deleted>>
         ELSE /\ dl_pc' = "page"
              /\ docs' = Min(coll_docs, batch_size)
              /\ deleted' = 0
    /\ UNCHANGED <<coll_size, coll_docs, batch_size, dl_depth, dl_full_pages,
                   dl_result>>
    /\ UNCHANGED notDeleteVars

\* lines 15-18: the next document of the page is deleted
DeleteDoc ==
    /\ dl_pc = "page"
    /\ docs > 0
    /\ docs' = docs - 1
    /\ coll_docs' = coll_docs - 1
    /\ deleted' = deleted + 1
    /\ dl_full_pages' = IF deleted + 1 = batch_size
                        THEN dl_full_pages + 1
                        ELSE dl_full_pages
    /\ UNCHANGED <<dl_pc, coll_size, batch_size, dl_depth, dl_result>>
    /\ UNCHANGED notDeleteVars

\* lines 20-22: after a full page the function calls itself, after a shorter
\* one it returns the number it deleted, which every caller returns in turn
EndPage ==
    /\ dl_pc = "page"
    /\ docs = 0
    /\ IF deleted >= batch_size
       THEN /\ dl_depth' = dl_depth + 1
            /\ dl_pc' = "call"
            /\ UNCHANGED dl_result
       ELSE /\ dl_result' = deleted
            /\ dl_pc' = "returned"
            /\ UNCHANGED dl_depth
    /\ UNCHANGED <<coll_size, coll_docs, batch_size, docs, deleted,
                   dl_full_pages>>
    /\ UNCHANGED notDeleteVars

NextDelete ==
    \/ EnterCall
    \/ DeleteDoc
    \/ EndPage

\* C30: delete_collection ends by returning, never in an exception, for every
\* collection size; when it has returned the collection is empty and it has
\* called itself once for every full page it deleted, which is the collection
\* size divided by batch_size, exact multiples included.
C30_DeleteCollectionEmptiesEveryCollection ==
    /\ dl_pc # "raised"
    /\ dl_pc = "returned" =>
          /\ coll_docs = 0
          /\ dl_depth - 1 = dl_full_pages
          /\ dl_full_pages = coll_size \div batch_size
          /\ dl_result = coll_size % batch_size

\* ------------------------------------------------------------------------
\* Specifications
\* ------------------------------------------------------------------------

\* one call of the retrieval agent
AgentInit ==
    InitAgent /\ IdleChunker /\ IdleConfig /\ IdleIngest /\ IdleParser /\ IdleDelete

SpecAgent == AgentInit /\ [][NextAgent]_vars

\* one call of chunk_text
ChunkerInit ==
    IdleAgent /\ InitChunker /\ IdleConfig /\ IdleIngest /\ IdleParser /\ IdleDelete

SpecChunker == ChunkerInit /\ [][NextChunker]_vars

\* the import of the configuration module and calls of the model selector
ConfigInit ==
    IdleAgent /\ IdleChunker /\ InitConfig /\ IdleIngest /\ IdleParser /\ IdleDelete

SpecConfig == ConfigInit /\ [][NextConfig]_vars

\* one ingestion run over a bucket, into an empty chunk store
IngestInit ==
    IdleAgent /\ IdleChunker /\ IdleConfig /\ InitIngest /\ IdleParser /\ IdleDelete

SpecIngest == IngestInit /\ [][NextIngest]_vars

\* repeated ingestion runs over a small bucket, each in a process of its own
ReingestInit ==
    IdleAgent /\ IdleChunker /\ IdleConfig /\ InitReingest /\ IdleParser /\ IdleDelete

SpecReingest == ReingestInit /\ [][NextReingest]_vars

\* one call of chunk_text on a long text
LongChunkerInit ==
    IdleAgent /\ InitLongChunker /\ IdleConfig /\ IdleIngest /\ IdleParser /\ IdleDelete

SpecLongChunker == LongChunkerInit /\ [][NextChunker]_vars

\* one fetched document is parsed and made searchable
ParserInit ==
    IdleAgent /\ IdleChunker /\ IdleConfig /\ IdleIngest /\ InitParser /\ IdleDelete

SpecParser == ParserInit /\ [][NextParser]_vars

\* one call of delete_collection from main
DeleteInit ==
    IdleAgent /\ IdleChunker /\ IdleConfig /\ IdleIngest /\ IdleParser /\ InitDelete

SpecDelete == DeleteInit /\ [][NextDelete]_vars

====
